---- MODULE Spec2Model ----
(***************************************************************************)
(* Model of the SparkPost client core: api.API (ReadBody, ParseResponse,   *)
(* AssertJson) and message_events (Samples, ParseEvents, typeMatch).       *)
(* Strings are sequences of one-character strings so that the regular      *)
(* expression, EqualFold and HasPrefix are computed, not assumed.          *)
(***************************************************************************)
EXTENDS Integers, Sequences, FiniteSets, TLC

(* ---------------------------------------------------------------------- *)
(* Bounds                                                                  *)
(* ---------------------------------------------------------------------- *)
MaxBatch == 3

(* ---------------------------------------------------------------------- *)
(* Characters and strings                                                  *)
(* ---------------------------------------------------------------------- *)
LowerSeq == <<"a","b","c","d","e","f","g","h","i","j","k","l","m",
              "n","o","p","q","r","s","t","u","v","w","x","y","z">>
UpperSeq == <<"A","B","C","D","E","F","G","H","I","J","K","L","M",
              "N","O","P","Q","R","S","T","U","V","W","X","Y","Z">>
Digits == {"0","1","2","3","4","5","6","7","8","9"}

Range(f) == { f[x] : x \in DOMAIN f }

\* the class \w of the regular expression: [0-9A-Za-z_]
WordChars == Range(LowerSeq) \cup Range(UpperSeq) \cup Digits \cup {"_"}

\* the class \s of the regular expression: [\t\n\f\r ]
SpaceChars == {" ", "\t", "\n", "\f", "\r"}

QUOTE == "\""
BSLASH == "\\"

RECURSIVE Flatten(_)
Flatten(ss) == IF ss = <<>> THEN <<>> ELSE Head(ss) \o Flatten(Tail(ss))

\* string literals used by the code and by the inputs
S_type == <<"t","y","p","e">>
S_delivery == <<"d","e","l","i","v","e","r","y">>
S_bounce == <<"b","o","u","n","c","e">>
S_zzz == <<"z","z","z">>
S_a_b == <<"a","-","b">>
S_msg_size == <<"m","s","g","_","s","i","z","e">>
S_rcpt_meta == <<"r","c","p","t","_","m","e","t","a">>
S_subject == <<"s","u","b","j","e","c","t">>
S_bogus_kind == <<"b","o","g","u","s","_","k","i","n","d">>
S_1 == <<"1">>

(* ---------------------------------------------------------------------- *)
(* Raw records: a JSON object as the list of its members, and its bytes    *)
(* ---------------------------------------------------------------------- *)
StrV(s) == [t |-> "str", s |-> s, m |-> <<>>]
NumV(s) == [t |-> "num", s |-> s, m |-> <<>>]
ObjV(k, sp, s) == [t |-> "obj", s |-> <<>>,
                   m |-> <<[key |-> k, sp1 |-> <<>>, sp2 |-> sp, val |-> StrV(s)]>>]
Member(k, sp1, sp2, v) == [key |-> k, sp1 |-> sp1, sp2 |-> sp2, val |-> v]

\* a JSON string literal: quotes and backslashes of the content are escaped
EscapeChar(c) == IF c = QUOTE \/ c = BSLASH THEN <<BSLASH, c>> ELSE <<c>>
Quoted(s) == <<QUOTE>> \o Flatten([i \in 1..Len(s) |-> EscapeChar(s[i])]) \o <<QUOTE>>

RECURSIVE JoinComma(_)
JoinComma(ss) ==
    IF ss = <<>> THEN <<>>
    ELSE IF Len(ss) = 1 THEN ss[1]
    ELSE ss[1] \o <<",">> \o JoinComma(Tail(ss))

\* the bytes of a value of the innermost level (a string or a number)
RenderLeaf(v) == IF v.t = "str" THEN Quoted(v.s) ELSE v.s

RenderInnerMember(mb) ==
    Quoted(mb.key) \o mb.sp1 \o <<":">> \o mb.sp2 \o RenderLeaf(mb.val)

RenderValue(v) ==
    IF v.t = "obj"
    THEN <<"{">> \o JoinComma([i \in 1..Len(v.m) |-> RenderInnerMember(v.m[i])]) \o <<"}">>
    ELSE RenderLeaf(v)

RenderMember(mb) ==
    Quoted(mb.key) \o mb.sp1 \o <<":">> \o mb.sp2 \o RenderValue(mb.val)

\* the bytes a json.RawMessage holds for the object with these members
Render(rec) ==
    <<"{">> \o JoinComma([i \in 1..Len(rec) |-> RenderMember(rec[i])]) \o <<"}">>

(* ---------------------------------------------------------------------- *)
(* typeMatch: the regular expression  "type":\s*"(\w+)"  on the raw bytes   *)
(* ---------------------------------------------------------------------- *)
\* the literal prefix of the pattern: "type":
TypePrefix == <<QUOTE>> \o S_type \o <<QUOTE, ":">>

\* first index >= p of s that holds no character of cls (Len(s)+1 if none):
\* where a greedy cls* that starts at p stops
RECURSIVE SkipClass(_, _, _)
SkipClass(s, p, cls) ==
    IF p > Len(s) \/ s[p] \notin cls THEN p ELSE SkipClass(s, p + 1, cls)

\* index of the opening quote of the captured word
WordOpen(s, p) == SkipClass(s, p + Len(TypePrefix), SpaceChars)
\* index after the last character of the captured word
WordClose(s, p) == SkipClass(s, WordOpen(s, p) + 1, WordChars)

\* the pattern matches with its first character at index p
MatchesAt(s, p) ==
    /\ p + Len(TypePrefix) - 1 <= Len(s)
    /\ SubSeq(s, p, p + Len(TypePrefix) - 1) = TypePrefix
    /\ WordOpen(s, p) <= Len(s)
    /\ s[WordOpen(s, p)] = QUOTE
    /\ WordClose(s, p) > WordOpen(s, p) + 1
    /\ WordClose(s, p) <= Len(s)
    /\ s[WordClose(s, p)] = QUOTE

\* typeMatch.FindStringSubmatch: the leftmost match as <<whole, group 1>>,
\* the empty sequence (nil) when nothing matches
FindStringSubmatch(s) ==
    LET starts == { p \in 1..Len(s) : MatchesAt(s, p) }
    IN  IF starts = {} THEN <<>>
        ELSE LET p == CHOOSE x \in starts : \A y \in starts : x <= y
             IN  << SubSeq(s, p, WordClose(s, p)),
                    SubSeq(s, WordOpen(s, p) + 1, WordClose(s, p) - 1) >>

(* ---------------------------------------------------------------------- *)
(* events package: the Type Registry and the event structs                 *)
(* ---------------------------------------------------------------------- *)
RegisteredKinds == { S_delivery, S_bounce }

NilEvent == [nil |-> TRUE, kind |-> <<>>, Type |-> <<>>, MsgSize |-> <<>>]

\* events.EventForName: a fresh zero-value event of the kind, nil if unknown
EventForName(name) ==
    IF name \in RegisteredKinds
    THEN [nil |-> FALSE, kind |-> name, Type |-> <<>>, MsgSize |-> <<>>]
    ELSE NilEvent

\* events.ValidEventType
ValidEventType(name) == name \in RegisteredKinds

\* json.Unmarshal of one top-level member into the event struct: a known
\* field takes a JSON string, anything else is a type error; rcpt_meta takes
\* any value and unknown keys are ignored
StoreMember(st, mb) ==
    IF mb.key = S_type
    THEN IF mb.val.t = "str" THEN [st EXCEPT !.e.Type = mb.val.s]
                             ELSE [st EXCEPT !.err = TRUE]
    ELSE IF mb.key = S_msg_size
    THEN IF mb.val.t = "str" THEN [st EXCEPT !.e.MsgSize = mb.val.s]
                             ELSE [st EXCEPT !.err = TRUE]
    ELSE st

RECURSIVE StoreMembers(_, _)
StoreMembers(st, ms) ==
    IF ms = <<>> THEN st ELSE StoreMembers(StoreMember(st, Head(ms)), Tail(ms))

\* json.Unmarshal([]byte(*j), e)
UnmarshalEvent(j, e) == StoreMembers([e |-> e, err |-> FALSE], j)

(* ---------------------------------------------------------------------- *)
(* Go values: errors and the returned list pointer                         *)
(* ---------------------------------------------------------------------- *)
NoError == [k |-> "nil", arg |-> <<>>, code |-> 0]
\* "ParseEvents didn't find an event type in: ..."
ErrNoEventType == [k |-> "no_event_type", arg |-> <<>>, code |-> 0]
\* "error parsing [%s]: %s"
ErrParsing(kind) == [k |-> "error_parsing", arg |-> kind, code |-> 0]

NilList == [nil |-> TRUE, items |-> <<>>]
ListOf(items) == [nil |-> FALSE, items |-> items]

(* ---------------------------------------------------------------------- *)
(* ParseEvents                                                             *)
(* ---------------------------------------------------------------------- *)
\* elist := make([]events.Event, eventCount)
MakeList(eventCount) == [n \in 1..eventCount |-> NilEvent]

\* elist[i] = e; i++   (i counts the slots filled so far)
Link(elist, i, e) == [elist EXCEPT ![i + 1] = e]

\* a slicing that keeps the unused slots
SliceWhole(elist, i) == elist
\* rv := elist[:i]
Slice(elist, i) == SubSeq(elist, 1, i)

\* a decode fault that hands back what was decoded so far
DecodeFaultPartial(kind, elist, i) == [rv |-> ListOf(Slice(elist, i)), err |-> ErrParsing(kind)]
\* return nil, fmt.Errorf("error parsing [%s]: %s", tstr[1], err)
DecodeFault(kind, elist, i) == [rv |-> NilList, err |-> ErrParsing(kind)]

\* the loop body for record idx and the rest of the loop after it
RECURSIVE ParseLoop(_, _, _, _)
ParseLoop(jl, idx, elist, i) ==
    IF idx > Len(jl)
    THEN [rv |-> ListOf(Slice(elist, i)), err |-> NoError]
    ELSE LET j == jl[idx]
             tstr == FindStringSubmatch(Render(j))
         IN  IF Len(tstr) < 2
             THEN [rv |-> NilList, err |-> ErrNoEventType]
             ELSE LET e == EventForName(tstr[2])
                  IN  IF e.nil
                      THEN ParseLoop(jl, idx + 1, elist, i)
                      ELSE LET u == UnmarshalEvent(j, e)
                           IN  IF u.err
                               THEN DecodeFault(tstr[2], elist, i)
                               ELSE ParseLoop(jl, idx + 1, Link(elist, i, u.e), i + 1)

ParseEvents(jl) == ParseLoop(jl, 1, MakeList(Len(jl)), 0)

(* ---------------------------------------------------------------------- *)
(* Input records                                                           *)
(* ---------------------------------------------------------------------- *)
NoSp == <<>>
\* {"type":"delivery","msg_size":"1"}
RecDelivery == << Member(S_type, NoSp, NoSp, StrV(S_delivery)),
                  Member(S_msg_size, NoSp, NoSp, StrV(S_1)) >>
\* {"type": "bounce"}
RecBounce == << Member(S_type, NoSp, <<" ">>, StrV(S_bounce)) >>
\* {"type":"zzz"}: a kind the registry does not know
RecUnknownKind == << Member(S_type, NoSp, NoSp, StrV(S_zzz)) >>
\* {"msg_size":"1"}
RecNoType == << Member(S_msg_size, NoSp, NoSp, StrV(S_1)) >>
\* {"type" :"delivery"}: white space before the colon
RecSpaceBeforeColon == << Member(S_type, <<" ">>, NoSp, StrV(S_delivery)) >>
\* {"type":"a-b"}
RecNonWordKind == << Member(S_type, NoSp, NoSp, StrV(S_a_b)) >>
\* {"type":1}
RecNumericType == << Member(S_type, NoSp, NoSp, NumV(S_1)) >>
\* {"type":"delivery","msg_size":1}: msg_size is no string
RecBadPayload == << Member(S_type, NoSp, NoSp, StrV(S_delivery)),
                    Member(S_msg_size, NoSp, NoSp, NumV(S_1)) >>
\* {"rcpt_meta":{"type":"bounce"},"type":"delivery"}
RecNestedBounce == << Member(S_rcpt_meta, NoSp, NoSp, ObjV(S_type, NoSp, S_bounce)),
                      Member(S_type, NoSp, NoSp, StrV(S_delivery)) >>
\* {"rcpt_meta":{"type":"zzz"},"type":"delivery"}
RecNestedUnknown == << Member(S_rcpt_meta, NoSp, NoSp, ObjV(S_type, NoSp, S_zzz)),
                       Member(S_type, NoSp, NoSp, StrV(S_delivery)) >>
\* {"subject":"\"type\":\"bounce\"","type":"delivery"}: the pattern's text
\* inside a string value, where its quotes are escaped
RecTypeInString == << Member(S_subject, NoSp, NoSp,
                             StrV(TypePrefix \o <<QUOTE>> \o S_bounce \o <<QUOTE>>)),
                      Member(S_type, NoSp, NoSp, StrV(S_delivery)) >>
\* {"type":"delivery","rcpt_meta":{"type":"bounce"}}: the nested one comes later
RecNestedAfter == << Member(S_type, NoSp, NoSp, StrV(S_delivery)),
                     Member(S_rcpt_meta, NoSp, NoSp, ObjV(S_type, NoSp, S_bounce)) >>

RecordPool == { RecDelivery, RecBounce, RecUnknownKind, RecNoType,
                RecSpaceBeforeColon, RecNonWordKind, RecNumericType,
                RecBadPayload, RecNestedBounce, RecNestedUnknown,
                RecTypeInString, RecNestedAfter }

SeqsUpTo(S, n) == UNION { [1..k -> S] : k \in 0..n }

Batches == SeqsUpTo(RecordPool, MaxBatch)

(* ---------------------------------------------------------------------- *)
(* Bounds of the client model                                              *)
(* ---------------------------------------------------------------------- *)
\* responses the server hands out in one run
MaxGets == 2

Goroutines == {1, 2}

(* ---------------------------------------------------------------------- *)
(* strings package                                                         *)
(* ---------------------------------------------------------------------- *)
IndexIn(seq, c) == CHOOSE n \in 1..Len(seq) : seq[n] = c
ToLower(c) == IF c \in Range(UpperSeq) THEN LowerSeq[IndexIn(UpperSeq, c)] ELSE c
ToUpper(c) == IF c \in Range(LowerSeq) THEN UpperSeq[IndexIn(LowerSeq, c)] ELSE c
UpperCase(s) == [n \in 1..Len(s) |-> ToUpper(s[n])]

\* strings.EqualFold on ASCII text
EqualFold(s, t) ==
    /\ Len(s) = Len(t)
    /\ \A n \in 1..Len(s) : ToLower(s[n]) = ToLower(t[n])

\* strings.HasPrefix
HasPrefix(s, prefix) ==
    /\ Len(s) >= Len(prefix)
    /\ SubSeq(s, 1, Len(prefix)) = prefix

\* strings.Join(*types, ",")
JoinTypes(list) == JoinComma(list)

(* ---------------------------------------------------------------------- *)
(* Errors of the api and message_events packages                           *)
(* ---------------------------------------------------------------------- *)
\* "Invalid event type [%s]"
ErrInvalidType(etype) == [k |-> "invalid_event_type", arg |-> etype, code |-> 0]
\* "Expected json, got [%s] with code %d"
ErrExpectedJson(ctype, status) == [k |-> "expected_json", arg |-> ctype, code |-> status]
\* "no results!"
ErrNoResults == [k |-> "no_results", arg |-> <<>>, code |-> 0]
\* "Failed to parse API response: [%s]\n%s"
ErrFailedToParse == [k |-> "failed_to_parse", arg |-> <<>>, code |-> 0]
\* errors of the libraries: the transport, the body stream, encoding/json
ErrTransport == [k |-> "transport", arg |-> <<>>, code |-> 0]
ErrRead == [k |-> "read", arg |-> <<>>, code |-> 0]
ErrReadClosed == [k |-> "read_on_closed_body", arg |-> <<>>, code |-> 0]
ErrJson == [k |-> "json", arg |-> <<>>, code |-> 0]

(* ---------------------------------------------------------------------- *)
(* Response bodies: the text of a body as the JSON document it holds       *)
(* ---------------------------------------------------------------------- *)
NoResults == [shape |-> "absent", items |-> <<>>, kv |-> ""]
ResultsArray(items) == [shape |-> "array", items |-> items, kv |-> ""]
ResultsNull == [shape |-> "null", items |-> <<>>, kv |-> ""]
ResultsMap(kv) == [shape |-> "map", items |-> <<>>, kv |-> kv]

\* kind: "json" (a JSON object), "garbage" (no JSON), "truncated" (a JSON
\* text cut short by a failed read), "empty" (no bytes);
\* extra: another top-level field, "none", "array" or "scalar"
Text(kind, results, errors, extra) ==
    [kind |-> kind, results |-> results, errors |-> errors, extra |-> extra]

EmptyText == Text("empty", NoResults, "", "none")
Truncated(text) == [text EXCEPT !.kind = "truncated"]

\* {"results":[{"type":"delivery","msg_size":"1"}]}
DocDelivery == Text("json", ResultsArray(<<RecDelivery>>), "", "none")
\* {"results":[{"type": "bounce"},{"type":"zzz"}]}
DocBounceUnknown == Text("json", ResultsArray(<<RecBounce, RecUnknownKind>>), "", "none")
\* {"results":[]}
DocEmptyResults == Text("json", ResultsArray(<<>>), "", "none")
\* {"results":null}
DocNullResults == Text("json", ResultsNull, "", "none")
\* {"errors":[{"message":"Forbidden.","code":"1000","description":""}]}
DocErrors == Text("json", NoResults, "Forbidden.", "none")
\* {"results":[],"total_count":0}
DocEmptyWithCount == Text("json", ResultsArray(<<>>), "", "scalar")
\* {"results":{"id":"42"}}
DocResultsMap == Text("json", ResultsMap("id=42"), "", "none")
\* {"results":{"id":"43"}}
DocResultsMap2 == Text("json", ResultsMap("id=43"), "", "none")
\* <html>Bad Gateway</html>
DocHtml == Text("garbage", NoResults, "", "none")

\* []byte values: nil, or a slice holding a text
NilBytes == [nil |-> TRUE, text |-> EmptyText]
Bytes(text) == [nil |-> FALSE, text |-> text]

(* ---------------------------------------------------------------------- *)
(* What the server may answer                                              *)
(* ---------------------------------------------------------------------- *)
\* var jctype string = "application/json"
jctype == <<"a","p","p","l","i","c","a","t","i","o","n","/","j","s","o","n">>
S_charset == <<";"," ","c","h","a","r","s","e","t","=","u","t","f","-","8">>
S_text_html == <<"t","e","x","t","/","h","t","m","l">>

Answer(ctype, status, text, readFails) ==
    [ctype |-> ctype, status |-> status, text |-> text, readFails |-> readFails]

Catalog == <<
    Answer(jctype, 200, DocDelivery, FALSE),
    Answer(jctype \o S_charset, 200, DocBounceUnknown, FALSE),
    Answer(jctype, 200, DocEmptyResults, FALSE),
    Answer(jctype, 403, DocErrors, FALSE),
    Answer(S_text_html, 502, DocHtml, FALSE),
    Answer(UpperCase(jctype), 200, DocResultsMap, FALSE),
    Answer(jctype, 200, DocResultsMap2, TRUE),
    Answer(jctype, 200, DocEmptyWithCount, FALSE),
    Answer(UpperCase(jctype) \o S_charset, 200, DocEmptyResults, FALSE),
    Answer(jctype, 200, DocNullResults, FALSE) >>

AllAnswers == 1..Len(Catalog)
\* the answers given to requests a caller makes with HttpGet itself: for
\* ReadBody and ParseResponse only the body and its stream matter
DirectAnswers == {1, 4, 6, 7}
\* the answers two concurrent callers are given
TwoAnswers == {1, 6}

(* ---------------------------------------------------------------------- *)
(* Filters a caller passes to Samples                                      *)
(* ---------------------------------------------------------------------- *)
NilTypes == [nil |-> TRUE, list |-> <<>>]
Types(list) == [nil |-> FALSE, list |-> list]

FilterInputs == { NilTypes,
                  Types(<<>>),
                  Types(<<S_delivery>>),
                  Types(<<S_bounce, S_delivery>>),
                  Types(<<S_delivery, S_bogus_kind>>),
                  Types(<<S_zzz, S_bogus_kind, S_delivery>>) }
ConcFilters == { NilTypes, Types(<<S_bogus_kind>>) }

(* ---------------------------------------------------------------------- *)
(* State                                                                   *)
(* ---------------------------------------------------------------------- *)
VARIABLES
    jlist,      \* the argument of a ParseEvents call
    parsed,     \* its return value, once it has returned
    handle,     \* the API struct of the client handle: its Response pointer
    heap,       \* the api.Response objects, by address
    resps,      \* the http.Response objects handed out so far
    pc,         \* where each goroutine stands in its call
    loc         \* the locals of each goroutine's call

vars == << jlist, parsed, handle, heap, resps, pc, loc >>

Pending == [done |-> FALSE, rv |-> NilList, err |-> NoError]
Returned(r) == [done |-> TRUE, rv |-> r.rv, err |-> r.err]

\* addresses: 0 is nil; one object for the handle and one per Samples copy
Addrs == 1..(Cardinality(Goroutines) + 1)

\* new(Response)
ZeroResponse == [HTTP |-> 0, Body |-> NilBytes, Results |-> {}, Errors |-> ""]

NoFirst == [set |-> FALSE, body |-> NilBytes, err |-> NoError]
NoUrl == [query |-> FALSE, events |-> <<>>]
NoRet == [rv |-> NilList, body |-> NilBytes, err |-> NoError]

ZeroLocals ==
    [op |-> "none", types |-> NilTypes, url |-> NoUrl, m |-> [Response |-> 0],
     recv |-> "handle", res |-> 0, sent |-> FALSE,
     bodyBytes |-> NilBytes, err |-> NoError, ret |-> NoRet]

(* ---------------------------------------------------------------------- *)
(* api: AssertJson, the body stream, json.Unmarshal of a body              *)
(* ---------------------------------------------------------------------- *)
\* the guard as it was before prefixes were allowed
AssertJsonEqualOnly(res) ==
    IF ~EqualFold(res.ctype, jctype)
    THEN ErrExpectedJson(res.ctype, res.status)
    ELSE NoError
\* AssertJson, for a response that is not nil
AssertJson(res) ==
    IF ~(EqualFold(res.ctype, jctype) \/ HasPrefix(res.ctype, jctype))
    THEN ErrExpectedJson(res.ctype, res.status)
    ELSE NoError

\* the http.Response object the client makes of an answer
NewResponse(c, via) ==
    [entry |-> c, via |-> via, reads |-> 0, consumed |-> FALSE, closed |-> FALSE,
     first |-> NoFirst]

\* an http.Response nothing refers to any more
Dropped ==
    [entry |-> 0, via |-> "dropped", reads |-> 0, consumed |-> FALSE, closed |-> FALSE,
     first |-> NoFirst]

\* ioutil.ReadAll(res.Body): the slice is never nil; a closed body fails, a
\* body already read to its end gives no bytes
ReadAll(rs) ==
    IF rs.closed THEN [bytes |-> Bytes(EmptyText), err |-> ErrReadClosed]
    ELSE IF rs.consumed THEN [bytes |-> Bytes(EmptyText), err |-> NoError]
    ELSE IF Catalog[rs.entry].readFails
         THEN [bytes |-> Bytes(Truncated(Catalog[rs.entry].text)), err |-> ErrRead]
         ELSE [bytes |-> Bytes(Catalog[rs.entry].text), err |-> NoError]

\* json.Unmarshal(bodyBytes, &resMap), resMap a map[string][]*json.RawMessage:
\* every top-level value has to be an array or null
UnmarshalResMapFails(text) ==
    \/ text.kind # "json"
    \/ text.results.shape = "map"
    \/ text.extra = "scalar"

\* json.Unmarshal(body, api.Response): nothing is stored unless the text is
\* JSON; results has to be an object of strings (merged into the map) or null
UnmarshalResponse(text, obj) ==
    IF text.kind # "json"
    THEN [obj |-> obj, err |-> TRUE]
    ELSE [obj |-> [obj EXCEPT
                     !.Results = IF text.results.shape = "map" THEN @ \cup {text.results.kv}
                                 ELSE IF text.results.shape = "null" THEN {}
                                 ELSE @,
                     !.Errors = IF text.errors # "" THEN text.errors ELSE @],
          err |-> text.results.shape = "array"]

(* ---------------------------------------------------------------------- *)
(* The handle, its copies and the api.Response objects                     *)
(* ---------------------------------------------------------------------- *)
\* api.Response of the receiver of goroutine g's ReadBody: the handle itself,
\* or the copy Samples works on (its receiver is a value)
RecvResponse(g) ==
    IF loc[g].recv = "copy" THEN loc[g].m.Response ELSE handle.Response

Referenced == {handle.Response} \cup { loc[g].m.Response : g \in Goroutines }
FreeAddr == CHOOSE a \in Addrs \ Referenced : \A b \in Addrs \ Referenced : a <= b

\* a check that never finds a body
MemoNever(a) == FALSE
\* api.Response != nil && api.Response.Body != nil
MemoHit(a) == a # 0 /\ ~heap[a].Body.nil

\* the first result of ReadBody for a response on the handle is kept for
\* comparison with the later ones
NoteFirst(rs, g, body, err) ==
    IF loc[g].recv = "handle" /\ ~rs[loc[g].res].first.set
    THEN [rs EXCEPT ![loc[g].res].first = [set |-> TRUE, body |-> body, err |-> err]]
    ELSE rs

\* where the caller of ReadBody goes on with (body, err)
AfterReadBody(g, body, err) ==
    IF loc[g].op = "ReadBody" \/ err # NoError
    THEN [pc |-> "done",
          loc |-> [loc[g] EXCEPT !.ret = [rv |-> NilList,
                                          body |-> IF loc[g].op = "ReadBody" THEN body ELSE NilBytes,
                                          err |-> err]]]
    ELSE [pc |-> IF loc[g].op = "Samples" THEN "s_parse" ELSE "pr_parse",
          loc |-> [loc[g] EXCEPT !.bodyBytes = body, !.err = err]]

(* ---------------------------------------------------------------------- *)
(* ReadBody, statement by statement                                        *)
(* ---------------------------------------------------------------------- *)
\* if api.Response != nil && api.Response.Body != nil { return ... }
RBCheck(g) ==
    /\ pc[g] = "rb_check"
    /\ LET a == RecvResponse(g)
       IN  IF MemoHit(a)
           THEN LET c == AfterReadBody(g, heap[a].Body, NoError)
                IN  /\ pc' = [pc EXCEPT ![g] = c.pc]
                    /\ loc' = [loc EXCEPT ![g] = c.loc]
                    /\ resps' = NoteFirst(resps, g, heap[a].Body, NoError)
           ELSE /\ pc' = [pc EXCEPT ![g] = "rb_read"]
                /\ UNCHANGED << loc, resps >>
    /\ UNCHANGED << jlist, parsed, handle, heap >>

\* bodyBytes, err := ioutil.ReadAll(res.Body)
RBRead(g) ==
    /\ pc[g] = "rb_read"
    /\ LET r == loc[g].res
           out == ReadAll(resps[r])
       IN  /\ loc' = [loc EXCEPT ![g].bodyBytes = out.bytes, ![g].err = out.err]
           /\ resps' = [resps EXCEPT ![r].reads = @ + 1,
                                     ![r].consumed = IF resps[r].closed THEN @ ELSE TRUE]
    /\ pc' = [pc EXCEPT ![g] = "rb_alloc"]
    /\ UNCHANGED << jlist, parsed, handle, heap >>

\* if api.Response == nil { api.Response = new(Response) }
RBAlloc(g) ==
    /\ pc[g] = "rb_alloc"
    /\ IF RecvResponse(g) = 0
       THEN /\ heap' = [heap EXCEPT ![FreeAddr] = ZeroResponse]
            /\ IF loc[g].recv = "copy"
               THEN loc' = [loc EXCEPT ![g].m.Response = FreeAddr] /\ UNCHANGED handle
               ELSE handle' = [handle EXCEPT !.Response = FreeAddr] /\ UNCHANGED loc
       ELSE UNCHANGED << heap, loc, handle >>
    /\ pc' = [pc EXCEPT ![g] = "rb_store"]
    /\ UNCHANGED << jlist, parsed, resps >>

\* api.Response.Body = bodyBytes; return bodyBytes, err; the deferred Close
RBStore(g) ==
    /\ pc[g] = "rb_store"
    /\ heap' = [heap EXCEPT ![RecvResponse(g)].Body = loc[g].bodyBytes]
    /\ resps' = [NoteFirst(resps, g, loc[g].bodyBytes, loc[g].err)
                     EXCEPT ![loc[g].res].closed = TRUE]
    /\ LET c == AfterReadBody(g, loc[g].bodyBytes, loc[g].err)
       IN  /\ pc' = [pc EXCEPT ![g] = c.pc]
           /\ loc' = [loc EXCEPT ![g] = c.loc]
    /\ UNCHANGED << jlist, parsed, handle >>

(* ---------------------------------------------------------------------- *)
(* Calls made on the handle itself                                         *)
(* ---------------------------------------------------------------------- *)
\* res, err := api.HttpGet(url) with err == nil: the caller holds res
HttpGetCall(g, c) ==
    /\ pc[g] = "idle"
    /\ Len(resps) < MaxGets
    /\ resps' = Append(resps, NewResponse(c, "direct"))
    /\ UNCHANGED << jlist, parsed, handle, heap, pc, loc >>

\* api.ReadBody(res)
ReadBodyCall(g, r) ==
    /\ pc[g] = "idle"
    /\ r \in 1..Len(resps)
    /\ resps[r].via = "direct"
    /\ loc' = [loc EXCEPT ![g] = [ZeroLocals EXCEPT !.op = "ReadBody", !.res = r]]
    /\ pc' = [pc EXCEPT ![g] = "rb_check"]
    /\ UNCHANGED << jlist, parsed, handle, heap, resps >>

\* api.ParseResponse(res): body, err := api.ReadBody(res)
ParseResponseCall(g, r) ==
    /\ pc[g] = "idle"
    /\ r \in 1..Len(resps)
    /\ resps[r].via = "direct"
    /\ loc' = [loc EXCEPT ![g] = [ZeroLocals EXCEPT !.op = "ParseResponse", !.res = r]]
    /\ pc' = [pc EXCEPT ![g] = "rb_check"]
    /\ UNCHANGED << jlist, parsed, handle, heap, resps >>

\* the rest of ParseResponse once ReadBody gave a body
ParseResponseParse(g) ==
    /\ pc[g] = "pr_parse"
    /\ LET a == IF handle.Response = 0 THEN FreeAddr ELSE handle.Response
           old == IF handle.Response = 0 THEN ZeroResponse ELSE heap[a]
           u == UnmarshalResponse(loc[g].bodyBytes.text, old)
       IN  /\ handle' = [handle EXCEPT !.Response = a]
           /\ heap' = [heap EXCEPT ![a] = IF u.err THEN u.obj
                                          ELSE [u.obj EXCEPT !.HTTP = loc[g].res]]
           /\ loc' = [loc EXCEPT ![g].ret =
                        [rv |-> NilList, body |-> NilBytes,
                         err |-> IF u.err THEN ErrFailedToParse ELSE NoError]]
    /\ pc' = [pc EXCEPT ![g] = "done"]
    /\ UNCHANGED << jlist, parsed, resps >>

(* ---------------------------------------------------------------------- *)
(* Samples                                                                 *)
(* ---------------------------------------------------------------------- *)
\* a validation that looks at the first kind only
FirstInvalidHeadOnly(list) ==
    IF list # <<>> /\ ~ValidEventType(list[1]) THEN 1 ELSE 0
\* for _, etype := range *types { if !events.ValidEventType(etype) ... }:
\* the index of the first kind that is not valid, 0 if all are
FirstInvalid(list) ==
    IF \E n \in 1..Len(list) : ~ValidEventType(list[n])
    THEN CHOOSE n \in 1..Len(list) :
            /\ ~ValidEventType(list[n])
            /\ \A k \in 1..(n - 1) : ValidEventType(list[k])
    ELSE 0

\* the url: the samples path, with events=<kinds joined by commas> when a
\* filter is given
BuildUrl(types) ==
    IF types.nil THEN NoUrl ELSE [query |-> TRUE, events |-> JoinTypes(types.list)]

\* entry of Samples: the receiver is copied, the filter validated, the url built
SamplesCall(g, types) ==
    /\ pc[g] = "idle"
    /\ LET bad == IF types.nil THEN 0 ELSE FirstInvalid(types.list)
           l == [ZeroLocals EXCEPT !.op = "Samples", !.types = types,
                                   !.m = [Response |-> handle.Response],
                                   !.recv = "copy"]
       IN  IF bad # 0
           THEN /\ loc' = [loc EXCEPT ![g] =
                             [l EXCEPT !.ret.err = ErrInvalidType(types.list[bad])]]
                /\ pc' = [pc EXCEPT ![g] = "done"]
           ELSE /\ loc' = [loc EXCEPT ![g] = [l EXCEPT !.url = BuildUrl(types)]]
                /\ pc' = [pc EXCEPT ![g] = "s_get"]
    /\ UNCHANGED << jlist, parsed, handle, heap, resps >>

\* res, err := m.HttpGet(url) with err != nil
SamplesGetFails(g) ==
    /\ pc[g] = "s_get"
    /\ loc' = [loc EXCEPT ![g].sent = TRUE, ![g].ret.err = ErrTransport]
    /\ pc' = [pc EXCEPT ![g] = "done"]
    /\ UNCHANGED << jlist, parsed, handle, heap, resps >>

\* res, err := m.HttpGet(url) answered by the server with c
SamplesGet(g, c) ==
    /\ pc[g] = "s_get"
    /\ Len(resps) < MaxGets
    /\ resps' = Append(resps, NewResponse(c, "samples"))
    /\ loc' = [loc EXCEPT ![g].sent = TRUE, ![g].res = Len(resps) + 1]
    /\ pc' = [pc EXCEPT ![g] = "s_assert"]
    /\ UNCHANGED << jlist, parsed, handle, heap >>

\* if err = api.AssertJson(res); err != nil { return nil, err }; m.ReadBody(res)
SamplesAssertJson(g) ==
    /\ pc[g] = "s_assert"
    /\ LET err == AssertJson(Catalog[resps[loc[g].res].entry])
       IN  IF err # NoError
           THEN /\ loc' = [loc EXCEPT ![g].ret.err = err]
                /\ pc' = [pc EXCEPT ![g] = "done"]
           ELSE /\ pc' = [pc EXCEPT ![g] = "rb_check"]
                /\ UNCHANGED loc
    /\ UNCHANGED << jlist, parsed, handle, heap, resps >>

\* the envelope: json.Unmarshal into resMap, resMap["results"], ParseEvents
SamplesParse(g) ==
    /\ pc[g] = "s_parse"
    /\ LET text == loc[g].bodyBytes.text
           out == IF UnmarshalResMapFails(text) THEN [rv |-> NilList, err |-> ErrJson]
                  ELSE IF text.results.shape = "absent"
                       THEN [rv |-> NilList, err |-> ErrNoResults]
                       ELSE ParseEvents(text.results.items)
       IN  loc' = [loc EXCEPT ![g].ret = [rv |-> out.rv, body |-> NilBytes, err |-> out.err]]
    /\ pc' = [pc EXCEPT ![g] = "done"]
    /\ UNCHANGED << jlist, parsed, handle, heap, resps >>

\* the call has returned to its caller; the copy Samples worked on and the
\* response it fetched, which it hands to nobody, are dropped
Return(g) ==
    /\ pc[g] = "done"
    /\ pc' = [pc EXCEPT ![g] = "idle"]
    /\ loc' = [loc EXCEPT ![g] = ZeroLocals]
    /\ heap' = IF loc[g].m.Response \notin {0, handle.Response}
               THEN [heap EXCEPT ![loc[g].m.Response] = ZeroResponse]
               ELSE heap
    /\ resps' = IF loc[g].op = "Samples" /\ loc[g].res # 0
                THEN [resps EXCEPT ![loc[g].res] = Dropped]
                ELSE resps
    /\ UNCHANGED << jlist, parsed, handle >>

(* ---------------------------------------------------------------------- *)
(* Specifications                                                          *)
(* ---------------------------------------------------------------------- *)
InitClient ==
    /\ handle = [Response |-> 0]
    /\ heap = [a \in Addrs |-> ZeroResponse]
    /\ resps = <<>>
    /\ pc = [g \in Goroutines |-> "idle"]
    /\ loc = [g \in Goroutines |-> ZeroLocals]

Init ==
    /\ jlist = <<>>
    /\ parsed = Pending
    /\ InitClient

\* one caller uses the handle, one call after the other
Next ==
    \/ \E t \in FilterInputs : SamplesCall(1, t)
    \/ SamplesGetFails(1)
    \/ \E c \in AllAnswers : SamplesGet(1, c)
    \/ SamplesAssertJson(1)
    \/ SamplesParse(1)
    \/ \E c \in DirectAnswers : HttpGetCall(1, c)
    \/ \E r \in 1..MaxGets : ReadBodyCall(1, r)
    \/ \E r \in 1..MaxGets : ParseResponseCall(1, r)
    \/ ParseResponseParse(1)
    \/ RBCheck(1)
    \/ RBRead(1)
    \/ RBAlloc(1)
    \/ RBStore(1)
    \/ Return(1)

Spec == Init /\ [][Next]_vars

\* two goroutines make requests on the same handle, with Samples or with
\* HttpGet and ReadBody
NextConc ==
    \E g \in Goroutines :
        \/ \E t \in ConcFilters : SamplesCall(g, t)
        \/ SamplesGetFails(g)
        \/ \E c \in TwoAnswers : SamplesGet(g, c)
        \/ SamplesAssertJson(g)
        \/ SamplesParse(g)
        \/ \E c \in TwoAnswers : HttpGetCall(g, c)
        \/ \E r \in 1..MaxGets : ReadBodyCall(g, r)
        \/ RBCheck(g)
        \/ RBRead(g)
        \/ RBAlloc(g)
        \/ RBStore(g)
        \/ Return(g)

SpecConc == Init /\ [][NextConc]_vars

(* ---------------------------------------------------------------------- *)
(* ParseEvents as a call on a batch                                        *)
(* ---------------------------------------------------------------------- *)
InitParse ==
    /\ jlist \in Batches
    /\ parsed = Pending
    /\ InitClient

ParseEventsCall ==
    /\ ~parsed.done
    /\ parsed' = Returned(ParseEvents(jlist))
    /\ UNCHANGED << jlist, handle, heap, resps, pc, loc >>

NextParse == ParseEventsCall

SpecParse == InitParse /\ [][NextParse]_vars

(* ====================================================================== *)
(* Properties of ParseEvents                                               *)
(* ====================================================================== *)
\* the kind-tag of each record of the pool, as the regular expression finds it
KindTags == [j \in RecordPool |-> FindStringSubmatch(Render(j))]
HasKind(j) == Len(KindTags[j]) >= 2
KindOf(j) == KindTags[j][2]
KindRegistered(j) == HasKind(j) /\ ValidEventType(KindOf(j))
Decodes(j) == ~UnmarshalEvent(j, EventForName(KindOf(j))).err
DecodedEvent(j) == UnmarshalEvent(j, EventForName(KindOf(j))).e

\* every record has a kind-tag and every record of a registered kind decodes
WellFormedBatch(jl) ==
    \A n \in 1..Len(jl) : HasKind(jl[n]) /\ (KindRegistered(jl[n]) => Decodes(jl[n]))

\* a record that stops the batch
Faulty(j) == ~HasKind(j) \/ (KindRegistered(j) /\ ~Decodes(j))
FirstFault(jl) == CHOOSE n \in 1..Len(jl) : Faulty(jl[n]) /\ \A k \in 1..(n - 1) : ~Faulty(jl[k])

RegisteredOnly(jl) == SelectSeq(jl, KindRegistered)
UnregisteredCount(jl) == Cardinality({ n \in 1..Len(jl) : ~KindRegistered(jl[n]) })

\* C1: on a batch in which every record has an extractable kind-tag and every
\* record of a registered kind decodes, ParseEvents returns no error and a
\* dense list: the decoded records of registered kinds in their original
\* order, of length N minus the number of unregistered ones, with no nil slot.
C1_DenseSubsequence ==
    (parsed.done /\ WellFormedBatch(jlist)) =>
        /\ parsed.err = NoError
        /\ ~parsed.rv.nil
        /\ Len(parsed.rv.items) = Len(jlist) - UnregisteredCount(jlist)
        /\ parsed.rv.items =
              [n \in 1..Len(RegisteredOnly(jlist)) |-> DecodedEvent(RegisteredOnly(jlist)[n])]
        /\ \A n \in 1..Len(parsed.rv.items) : ~parsed.rv.items[n].nil

\* a batch of three with an unregistered record between two registered ones
C1_Witness ==
    /\ parsed.done
    /\ jlist = << RecDelivery, RecUnknownKind, RecBounce >>
    /\ Len(parsed.rv.items) = 2
    /\ parsed.rv.items[1].kind = S_delivery
    /\ parsed.rv.items[2].kind = S_bounce

\* C2: a record without a kind-tag, or of a registered kind that does not
\* decode, makes ParseEvents return an error (the decode fault naming the
\* kind) and a nil list, whatever was decoded before it; without such a
\* record there is no error, however many kinds are unregistered.
C2_AllOrNothing ==
    parsed.done =>
        IF \E n \in 1..Len(jlist) : Faulty(jlist[n])
        THEN /\ parsed.rv.nil
             /\ parsed.rv.items = <<>>
             /\ LET j == jlist[FirstFault(jlist)]
                IN  parsed.err = IF HasKind(j) THEN ErrParsing(KindOf(j)) ELSE ErrNoEventType
        ELSE parsed.err = NoError /\ ~parsed.rv.nil

\* a decode fault in the third record after two records were decoded
C2_Witness ==
    /\ parsed.done
    /\ jlist = << RecDelivery, RecBounce, RecBadPayload >>
    /\ parsed.rv.nil
    /\ parsed.err = ErrParsing(S_delivery)

\* the record's own kind: the string value of its top-level type member
TopTypeMembers(j) == { n \in 1..Len(j) : j[n].key = S_type /\ j[n].val.t = "str" }
HasTopType(j) == TopTypeMembers(j) # {}
TopLevelType(j) == j[CHOOSE n \in TopTypeMembers(j) : \A k \in TopTypeMembers(j) : k <= n].val.s
TopTypeRegistered(j) == HasTopType(j) /\ TopLevelType(j) \in RegisteredKinds

\* C9: the kind a record is dispatched on is its own top-level type field:
\* the returned events are those of the records whose top-level type is
\* registered, each decoded into the struct of that type, whatever
\* "type":"<word>" text occurs deeper in the record.
C9_TopLevelDispatch ==
    (parsed.done /\ parsed.err = NoError) =>
        LET own == SelectSeq(jlist, TopTypeRegistered)
        IN  /\ Len(parsed.rv.items) = Len(own)
            /\ \A n \in 1..Len(own) : parsed.rv.items[n].kind = TopLevelType(own[n])



(* ====================================================================== *)
(* Properties of the client                                                *)
(* ====================================================================== *)
\* the answer of the server that goroutine g's call works on
AnswerOf(g) == Catalog[resps[loc[g].res].entry]
InSamples(g) == loc[g].op = "Samples"
InvalidAt(list) == { n \in 1..Len(list) : list[n] \notin RegisteredKinds }

\* C3: a Samples call whose filter holds a kind the registry does not know
\* returns the validation error naming the first such kind in list order, and
\* no HTTP request is issued in that call; a request is issued only for a
\* filter that is absent or holds valid kinds only.
C3_ValidateBeforeGet ==
    \A g \in Goroutines :
        (InSamples(g) /\ ~loc[g].types.nil /\ InvalidAt(loc[g].types.list) # {}) =>
            LET list == loc[g].types.list
                first == CHOOSE n \in InvalidAt(list) : \A k \in InvalidAt(list) : n <= k
            IN  /\ pc[g] = "done"
                /\ loc[g].ret.err = ErrInvalidType(list[first])
                /\ loc[g].ret.rv.nil
                /\ ~loc[g].sent
                /\ loc[g].res = 0

\* the filter ["delivery","bogus_kind"] was refused, naming bogus_kind
C3_Witness ==
    \E g \in Goroutines :
        /\ pc[g] = "done"
        /\ InSamples(g)
        /\ loc[g].types = Types(<<S_delivery, S_bogus_kind>>)
        /\ loc[g].ret.err = ErrInvalidType(S_bogus_kind)
        /\ ~loc[g].sent

\* the outcome of the content-type guard of a Samples call, given which
\* content types count as JSON
GuardOutcome(g, isJson) ==
    (InSamples(g) /\ loc[g].res # 0 /\ pc[g] # "s_assert") =>
        IF isJson
        THEN loc[g].ret.err.k # "expected_json"
        ELSE /\ pc[g] = "done"
             /\ loc[g].ret.err = ErrExpectedJson(AnswerOf(g).ctype, AnswerOf(g).status)
             /\ loc[g].ret.rv.nil
             /\ loc[g].bodyBytes.nil
             /\ resps[loc[g].res].reads = 0

\* C4 (as amended): a response whose Content-Type neither equals
\* application/json when letter case is ignored nor has application/json as
\* its prefix is rejected with the error that quotes the content type and the
\* status code, before the body is read or parsed; any other passes the guard.
C4_GuardFoldOrPrefix ==
    \A g \in Goroutines :
        GuardOutcome(g, \/ EqualFold(AnswerOf(g).ctype, jctype)
                        \/ HasPrefix(AnswerOf(g).ctype, jctype))

\* C4 as stated: equal to application/json, or prefixed by it
C4_GuardEqualOrPrefix ==
    \A g \in Goroutines :
        GuardOutcome(g, \/ AnswerOf(g).ctype = jctype
                        \/ HasPrefix(AnswerOf(g).ctype, jctype))

\* a text/html answer was rejected with its body unread
C4_Witness ==
    \E g \in Goroutines :
        /\ pc[g] = "done"
        /\ InSamples(g)
        /\ loc[g].res # 0
        /\ AnswerOf(g).ctype = S_text_html
        /\ loc[g].ret.err = ErrExpectedJson(S_text_html, 502)
        /\ resps[loc[g].res].reads = 0

\* C5: in Samples a JSON body without a results field yields an error, and a
\* body whose results field is an empty array yields an empty list, no error.
C5_Envelope ==
    \A g \in Goroutines :
        (/\ pc[g] = "done" /\ InSamples(g) /\ loc[g].res # 0
         /\ AssertJson(AnswerOf(g)) = NoError
         /\ AnswerOf(g).text.kind = "json"
         /\ ~AnswerOf(g).readFails) =>
            LET results == AnswerOf(g).text.results
            IN  /\ results.shape = "absent" =>
                      (loc[g].ret.err # NoError /\ loc[g].ret.rv.nil)
                /\ (results.shape = "array" /\ results.items = <<>>) =>
                      (loc[g].ret.err = NoError /\ loc[g].ret.rv = ListOf(<<>>))

\* what Samples makes of a filter and an answer when nothing else is involved
SamplesOutcome(types, a) ==
    IF AssertJson(a) # NoError THEN [rv |-> NilList, err |-> AssertJson(a)]
    ELSE IF a.readFails THEN [rv |-> NilList, err |-> ErrRead]
    ELSE IF UnmarshalResMapFails(a.text) THEN [rv |-> NilList, err |-> ErrJson]
    ELSE IF a.text.results.shape = "absent" THEN [rv |-> NilList, err |-> ErrNoResults]
    ELSE ParseEvents(a.text.results.items)

\* C6: no state persists across calls: what a Samples call returns is
\* determined by its own filter and the response fetched for it.
C6_NoStateAcrossCalls ==
    \A g \in Goroutines :
        (pc[g] = "done" /\ InSamples(g) /\ loc[g].res # 0) =>
            [rv |-> loc[g].ret.rv, err |-> loc[g].ret.err]
                = SamplesOutcome(loc[g].types, AnswerOf(g))

\* the body goroutine g has got from ReadBody
GotBody(g) ==
    /\ \/ pc[g] \in {"s_parse", "pr_parse"}
       \/ pc[g] = "done" /\ loc[g].op = "ReadBody"
    /\ loc[g].res # 0
ObtainedBody(g) == IF loc[g].op = "ReadBody" THEN loc[g].ret.body ELSE loc[g].bodyBytes

\* C7: the last body is memoized on the shared handle: a ReadBody that finds
\* a body stored on the api.Response its receiver points to returns that
\* body, whichever response it was called for, and leaves the stream of its
\* own response unread.
C7_MemoServesStoredBody ==
    [][ \A g \in Goroutines :
          (/\ pc[g] = "rb_check"
           /\ pc'[g] # "rb_check"
           /\ RecvResponse(g) # 0
           /\ ~heap[RecvResponse(g)].Body.nil) =>
              /\ pc'[g] \in {"s_parse", "pr_parse", "done"}
              /\ IF loc[g].op = "ReadBody"
                 THEN loc'[g].ret.body = heap[RecvResponse(g)].Body
                 ELSE loc'[g].bodyBytes = heap[RecvResponse(g)].Body
              /\ resps'[loc[g].res].reads = resps[loc[g].res].reads ]_vars

\* two requests in flight on the handle, for different responses, and one has
\* obtained the body of the other's response, not of its own
C7_Witness ==
    \E g, h \in Goroutines :
        /\ g # h
        /\ pc[h] # "idle"
        /\ loc[h].res # 0
        /\ GotBody(g)
        /\ loc[g].res # loc[h].res
        /\ ObtainedBody(g) = Bytes(AnswerOf(h).text)
        /\ ObtainedBody(g) # Bytes(AnswerOf(g).text)

\* C8: every later ReadBody(res) on the handle returns the body and the error
\* outcome of the first ReadBody(res), and the stream of a response is read
\* at most once.
C8_ReadBodyIdempotent ==
    /\ \A g \in Goroutines :
          (pc[g] = "done" /\ loc[g].op = "ReadBody") =>
              LET first == resps[loc[g].res].first
              IN  /\ first.set
                  /\ loc[g].ret.body = first.body
                  /\ loc[g].ret.err = first.err
    /\ \A r \in 1..Len(resps) : resps[r].reads <= 1

\* C10: when ParseResponse(res) returns nil the stored Response is
\* consistent: HTTP is res, Body is the body of res, and the parsed fields
\* are those of that body.
C10_ResponseConsistent ==
    \A g \in Goroutines :
        (pc[g] = "done" /\ loc[g].op = "ParseResponse" /\ loc[g].ret.err = NoError) =>
            /\ handle.Response # 0
            /\ heap[handle.Response].HTTP = loc[g].res
            /\ heap[handle.Response].Body = Bytes(AnswerOf(g).text)

====
